---- MODULE Spec2Model ----
(***************************************************************************)
(* WindsorLogistics backend: truck reservation (backend/main.py), trip     *)
(* lifecycle and share codes (backend/app/routers/trips.py), location      *)
(* ingestion (backend/app/routers/tracking.py) and the websocket hub       *)
(* (backend/app/realtime/manager.py, backend/app/routers/ws.py).           *)
(*                                                                         *)
(* Every coroutine is cut at its awaits: one action is the code that runs  *)
(* from one resumption up to and including the effect of the next awaited  *)
(* store call or socket send.  Optional values (Python None) are modelled  *)
(* as sets: {} is None and {v} is the value v.                             *)
(***************************************************************************)
EXTENDS Integers, Sequences, FiniteSets, TLC

\* ------------------------------------------------------------------------
\* Domains of the inputs
\* ------------------------------------------------------------------------

\* truck ids the owner and the customers name
TruckIds == {"T1", "T2"}

\* concurrent POST /api/bookings requests
Reqs == {1, 2, 3}

\* main.py: TruckStatus
TruckStatus == {"available", "out_of_service", "booked"}

\* schemas/trip.py: TripStatus
TripStatus == {"scheduled", "in_transit", "delayed", "delivered", "cancelled"}

\* trip ids the owner, the drivers and the viewers name
TripIds == {"t1", "t2"}

None == {}

Some(v) == {v}

\* the value of an optional that is present
Val(o) == CHOOSE v \in o : TRUE

VARIABLES
    trucks,      \* truck_tracker.trucks: truck_id -> status, or "absent"
    bookings,    \* truck_tracker.bookings: set of documents
    trips,       \* truck_tracker.trips: set of documents (main.py)
    req,         \* the create_booking coroutines
    race,        \* history: per truck, the requests that ran their reservation
                 \* step since the owner last made the truck available
    wtrips,      \* windsorlogistics.trips: trip_id -> document (app/routers)
    now,         \* time.time() in milliseconds
    locations,   \* windsorlogistics.locations: set of documents
    ing,         \* the update_location coroutines of tracking.py
    rooms,       \* WSManager.rooms: trip_id -> set of sockets, keys as stored
    socks,       \* the trip_ws coroutines and their sockets
    recv,        \* per socket, the frames sent to its client, in order
    border,      \* history: the coroutines in the order they called broadcast
    trip_shares, \* windsorlogistics.trip_shares: set of documents
    iss,         \* the create_share_otp coroutines
    resp,        \* the answer of the last single-await handler
    subscribers, \* main.py subscribers: truck_id -> set of sockets, keys as stored
    tsocks,      \* the ws_truck coroutines and their sockets
    tloc,        \* the update_location coroutines of main.py
    truck_current_location  \* the truck ids with a document in that collection

liveVars == <<subscribers, tsocks, tloc, truck_current_location>>

bookVars == <<trucks, bookings, trips, req, race>>

\* the state main.py works on
mainVars == <<bookVars, liveVars>>

hubVars == <<rooms, socks, recv, border>>

shareVars == <<trip_shares, iss>>

\* the state the app/ routers work on
appVars == <<wtrips, now, locations, ing, rooms, socks, recv, border,
             trip_shares, iss, resp>>

nonBookVars == <<appVars, liveVars>>

vars == <<trucks, bookings, trips, req, race, wtrips, now, locations, ing,
          rooms, socks, recv, border, trip_shares, iss, resp, subscribers,
          tsocks, tloc, truck_current_location>>

\* ------------------------------------------------------------------------
\* main.py: owner fleet
\* ------------------------------------------------------------------------

\* create_truck: insert_one under the unique index (owner_id, truck_id); every
\* truck belongs to OwnerID, so a second insert of the truck_id raises and the
\* handler answers 409 without a write
create_truck(t, st) ==
    /\ trucks[t] = "absent"
    /\ trucks' = [trucks EXCEPT ![t] = st]
    /\ race' = [race EXCEPT ![t] = [open |-> st = "available", reqs |-> {}]]
    /\ UNCHANGED <<bookings, trips, req, nonBookVars>>

\* update_truck: find_one_and_update {owner_id, truck_id} $set status; a body
\* without status answers 400 and an unknown truck 404, both without a write
update_truck(t, st) ==
    /\ trucks[t] # "absent"
    /\ trucks' = [trucks EXCEPT ![t] = st]
    /\ race' = [race EXCEPT ![t] = [open |-> st = "available", reqs |-> {}]]
    /\ UNCHANGED <<bookings, trips, req, nonBookVars>>

\* ------------------------------------------------------------------------
\* main.py: create_booking
\* ------------------------------------------------------------------------

\* new_id("bk"), new_id("tr"): a fresh uuid4 prefix per call; each request
\* calls each once
new_id(prefix, r) ==
    IF prefix = "bk" THEN <<"bk_1", "bk_2", "bk_3">>[r]
                     ELSE <<"tr_1", "tr_2", "tr_3">>[r]

\* the filter of the find_one_and_update, on the stored status of the truck
\* named by the payload ("absent": no document matches the truck_id)
ReserveFilterAny(status) == status # "absent"

ReserveFilter(status) == status = "available"

\* the $set of the find_one_and_update
ReserveSetNothing(status) == status

ReserveSet(status) == "booked"

IdleReq == [pc |-> "idle", truck_id |-> "", truck |-> None,
            booking_id |-> None, trip_id |-> None, result |-> "none"]

\* the atomic find_one_and_update, and the 400 when it returns no document
Reserve(r, t) ==
    /\ req[r].pc = "idle"
    /\ IF ReserveFilter(trucks[t])
       THEN /\ trucks' = [trucks EXCEPT ![t] = ReserveSet(trucks[t])]
            /\ req' = [req EXCEPT ![r] = [@ EXCEPT !.pc = "insert_booking",
                                                   !.truck_id = t,
                                                   !.truck = Some(trucks'[t])]]
       ELSE /\ trucks' = trucks
            /\ req' = [req EXCEPT ![r] = [@ EXCEPT !.pc = "failed",
                                                   !.truck_id = t,
                                                   !.result = "400 Truck not available"]]
    /\ race' = [race EXCEPT ![t] = IF @.open THEN [@ EXCEPT !.reqs = @ \cup {r}] ELSE @]
    /\ UNCHANGED <<bookings, trips, nonBookVars>>

\* new ids, booking_doc, db.bookings.insert_one
InsertBookingSkipped(r) ==
    /\ req[r].pc = "insert_booking"
    /\ req' = [req EXCEPT ![r] = [@ EXCEPT !.pc = "insert_trip",
                                           !.booking_id = Some(new_id("bk", r)),
                                           !.trip_id = Some(new_id("tr", r))]]
    /\ UNCHANGED <<trucks, bookings, trips, race, nonBookVars>>

InsertBooking(r) ==
    /\ req[r].pc = "insert_booking"
    /\ bookings' = bookings \cup {[booking_id |-> new_id("bk", r),
                                    trip_id |-> new_id("tr", r),
                                    truck_id |-> req[r].truck_id,
                                    status |-> "created"]}
    /\ req' = [req EXCEPT ![r] = [@ EXCEPT !.pc = "insert_trip",
                                           !.booking_id = Some(new_id("bk", r)),
                                           !.trip_id = Some(new_id("tr", r))]]
    /\ UNCHANGED <<trucks, trips, race, nonBookVars>>

\* trip_doc, db.trips.insert_one, the {"ok": True, ...} answer
InsertTrip(r) ==
    /\ req[r].pc = "insert_trip"
    /\ trips' = trips \cup {[trip_id |-> Val(req[r].trip_id),
                              booking_id |-> Val(req[r].booking_id),
                              truck_id |-> req[r].truck_id,
                              status |-> "scheduled"]}
    /\ req' = [req EXCEPT ![r] = [@ EXCEPT !.pc = "done", !.result = "200 ok"]]
    /\ UNCHANGED <<trucks, bookings, race, nonBookVars>>

create_booking(r) ==
    \/ \E t \in TruckIds : Reserve(r, t)
    \/ InsertBooking(r)
    \/ InsertTrip(r)

\* ------------------------------------------------------------------------
\* app/routers/trips.py: create_trip, patch_trip
\* ------------------------------------------------------------------------

\* an answer: the handler, its path or query argument, the HTTP status and
\* the trip_id and expires_ms of the body, where the body has them
Answer(op, arg, code, trip_id, expires_ms) ==
    [op |-> op, arg |-> arg, code |-> code, trip_id |-> trip_id,
     expires_ms |-> expires_ms]

\* the planned_eta_ms values the owner supplies
Etas == {600000}

Opt(S) == {None} \cup {Some(v) : v \in S}

\* no document with the trip_id; a field a document lacks reads as None
AbsentTrip == [exists |-> FALSE, status |-> "None", planned_eta_ms |-> None,
               updated_at_ms |-> None, last_location |-> None,
               last_update_ms |-> None, delay_minutes |-> None,
               delay_color |-> "None"]

\* create_trip: update_one {trip_id} $set payload.model_dump() + updated_at_ms,
\* upsert=True
create_trip(t, st, eta) ==
    /\ wtrips' = [wtrips EXCEPT ![t] = [@ EXCEPT !.exists = TRUE,
                                                 !.status = st,
                                                 !.planned_eta_ms = eta,
                                                 !.updated_at_ms = Some(now)]]
    /\ resp' = Answer("create_trip", t, 200, t, None)
    /\ UNCHANGED <<mainVars, now, locations, ing, hubVars, shareVars>>

\* the $set of patch_trip on the matched document: update holds the fields of
\* the patch that are not None, and updated_at_ms
PatchedWhole(doc, st, eta, now_ms) ==
    [doc EXCEPT !.status = IF st = None THEN "None" ELSE Val(st),
                !.planned_eta_ms = eta,
                !.updated_at_ms = Some(now_ms)]

Patched(doc, st, eta, now_ms) ==
    [doc EXCEPT !.status = IF st = None THEN @ ELSE Val(st),
                !.planned_eta_ms = IF eta = None THEN @ ELSE eta,
                !.updated_at_ms = Some(now_ms)]

\* patch_trip: the fields of the patch that are not None; none: 200 without a
\* store call; update_one {trip_id} $set, 404 when nothing matched
patch_trip(t, st, eta) ==
    /\ IF st = None /\ eta = None
       THEN /\ resp' = Answer("patch_trip", t, 200, "", None)
            /\ wtrips' = wtrips
       ELSE IF ~wtrips[t].exists
       THEN /\ resp' = Answer("patch_trip", t, 404, "", None)
            /\ wtrips' = wtrips
       ELSE /\ resp' = Answer("patch_trip", t, 200, "", None)
            /\ wtrips' = [wtrips EXCEPT ![t] = Patched(@, st, eta, now)]
    /\ UNCHANGED <<mainVars, now, locations, ing, hubVars, shareVars>>

\* ------------------------------------------------------------------------
\* app/realtime/manager.py: WSManager; app/routers/ws.py: trip_ws
\* ------------------------------------------------------------------------

\* the websocket connections
Chans == {1, 2, 3}

\* A set of sockets is kept as the sequence in which iterating it yields its
\* members.  Adding a member puts it at a place its hash decides and leaves
\* the others in their order, as does discarding one (a set this small is
\* never resized).
Range(q) == {q[k] : k \in 1..Len(q)}

\* set.add at place i
AddAt(q, c, i) ==
    IF c \in Range(q) THEN q
    ELSE SubSeq(q, 1, i - 1) \o <<c>> \o SubSeq(q, i, Len(q))

\* set.discard
DiscardNothing(q, c) == q

Discard(q, c) == SelectSeq(q, LAMBDA x : x # c)

\* rooms.get(trip_id, set())
Room(rm, t) == IF t \in DOMAIN rm THEN rm[t] ELSE <<>>

\* connect, after the accept: rooms.setdefault(trip_id, set()).add(ws)
Register(rm, t, c, i) ==
    [k \in DOMAIN rm \cup {t} |-> IF k = t THEN AddAt(Room(rm, t), c, i) ELSE rm[k]]

\* WSManager.disconnect
DisconnectKeepsKey(rm, t, c) ==
    IF t \in DOMAIN rm THEN [rm EXCEPT ![t] = Discard(@, c)] ELSE rm

Disconnect(rm, t, c) ==
    IF t \in DOMAIN rm
    THEN IF Discard(rm[t], c) = <<>>
         THEN [k \in DOMAIN rm \ {t} |-> rm[k]]
         ELSE [rm EXCEPT ![t] = Discard(@, c)]
    ELSE rm

NewSock == [pc |-> "new", trip_id |-> "", gone |-> FALSE]

\* trip_ws up to the end of the awaited ws.accept() of manager.connect
ws_accept(c, t) ==
    /\ socks[c].pc = "new"
    /\ socks' = [socks EXCEPT ![c] = [@ EXCEPT !.pc = "accepted", !.trip_id = t]]
    /\ UNCHANGED <<mainVars, wtrips, now, locations, ing, rooms, recv, border,
                   shareVars, resp>>

\* the rest of manager.connect, up to the first awaited ws.receive_text()
ws_register(c) ==
    /\ socks[c].pc = "accepted"
    /\ \E i \in 1..(Len(Room(rooms, socks[c].trip_id)) + 1) :
          rooms' = Register(rooms, socks[c].trip_id, c, i)
    /\ socks' = [socks EXCEPT ![c] = [@ EXCEPT !.pc = "recv"]]
    /\ UNCHANGED <<mainVars, wtrips, now, locations, ing, recv, border,
                   shareVars, resp>>

\* the client goes away: from now on receive_text raises WebSocketDisconnect
\* and send_json raises
client_close(c) ==
    /\ socks[c].pc \in {"accepted", "recv"}
    /\ ~socks[c].gone
    /\ socks' = [socks EXCEPT ![c] = [@ EXCEPT !.gone = TRUE]]
    /\ UNCHANGED <<mainVars, wtrips, now, locations, ing, rooms, recv, border,
                   shareVars, resp>>

\* except WebSocketDisconnect: manager.disconnect(trip_id, ws)
ws_disconnect(c) ==
    /\ socks[c].pc = "recv"
    /\ socks[c].gone
    /\ rooms' = Disconnect(rooms, socks[c].trip_id, c)
    /\ socks' = [socks EXCEPT ![c] = [@ EXCEPT !.pc = "closed"]]
    /\ UNCHANGED <<mainVars, wtrips, now, locations, ing, recv, border,
                   shareVars, resp>>

\* ------------------------------------------------------------------------
\* main.py: subscribers, ws_truck, update_location of a truck
\* ------------------------------------------------------------------------

\* the connections to /ws/trucks/{truck_id}
TChans == {1, 2}

\* the POST /api/trucks/{truck_id}/location requests
TProcs == {1, 2}

NewTruckSock == [pc |-> "new", truck_id |-> "", gone |-> FALSE]

IdleTruckLoc == [pc |-> "idle", truck_id |-> "", pending |-> <<>>, dead |-> <<>>]

\* ws_truck up to the end of the awaited websocket.accept()
ws_truck_accept(c, t) ==
    /\ tsocks[c].pc = "new"
    /\ tsocks' = [tsocks EXCEPT ![c] = [@ EXCEPT !.pc = "accepted", !.truck_id = t]]
    /\ UNCHANGED <<bookVars, appVars, subscribers, tloc, truck_current_location>>

\* subscribers.setdefault(truck_id, set()).add(websocket), and the awaited
\* find_one of the truck's current location
ws_truck_subscribe(c) ==
    /\ tsocks[c].pc = "accepted"
    /\ \E i \in 1..(Len(Room(subscribers, tsocks[c].truck_id)) + 1) :
          subscribers' = Register(subscribers, tsocks[c].truck_id, c, i)
    /\ tsocks' = [tsocks EXCEPT ![c] =
           [@ EXCEPT !.pc = IF tsocks[c].truck_id \in truck_current_location
                            THEN "send_last" ELSE "recv"]]
    /\ UNCHANGED <<bookVars, appVars, tloc, truck_current_location>>

\* "if last: await websocket.send_json(last)", outside the try: a send that
\* raises ends the handler and leaves the socket in subscribers
ws_truck_send_last(c) ==
    /\ tsocks[c].pc = "send_last"
    /\ tsocks' = [tsocks EXCEPT ![c] =
           [@ EXCEPT !.pc = IF tsocks[c].gone THEN "raised" ELSE "recv"]]
    /\ UNCHANGED <<bookVars, appVars, subscribers, tloc, truck_current_location>>

\* the client goes away: from now on receive_text raises WebSocketDisconnect
\* and send_json raises
truck_client_close(c) ==
    /\ tsocks[c].pc \in {"accepted", "send_last", "recv"}
    /\ ~tsocks[c].gone
    /\ tsocks' = [tsocks EXCEPT ![c] = [@ EXCEPT !.gone = TRUE]]
    /\ UNCHANGED <<bookVars, appVars, subscribers, tloc, truck_current_location>>

\* except WebSocketDisconnect: subscribers[truck_id].discard(websocket)
ws_truck_disconnect(c) ==
    /\ tsocks[c].pc = "recv"
    /\ tsocks[c].gone
    /\ subscribers' = [subscribers EXCEPT ![tsocks[c].truck_id] = Discard(@, c)]
    /\ tsocks' = [tsocks EXCEPT ![c] = [@ EXCEPT !.pc = "closed"]]
    /\ UNCHANGED <<bookVars, appVars, tloc, truck_current_location>>

\* update_location of main.py: 400 without lat or lng; doc and the awaited
\* truck_current_location.update_one(..., upsert=True)
truck_location_upsert(q, t, valid) ==
    /\ tloc[q].pc = "idle"
    /\ IF valid
       THEN /\ truck_current_location' = truck_current_location \cup {t}
            /\ tloc' = [tloc EXCEPT ![q] = [@ EXCEPT !.pc = "fanout", !.truck_id = t]]
       ELSE /\ truck_current_location' = truck_current_location
            /\ tloc' = [tloc EXCEPT ![q] = [@ EXCEPT !.pc = "rejected", !.truck_id = t]]
    /\ UNCHANGED <<bookVars, appVars, subscribers, tsocks>>

\* "for ws in dead: subscribers[truck_id].discard(ws)"
DiscardAll(q, dead) == SelectSeq(q, LAMBDA x : x \notin Range(dead))

\* one "await ws.send_json(doc)" of the loop to socket c, with rest the sockets
\* still to be sent to: a send that raises puts the socket on the dead list;
\* after the last send the dead sockets are discarded and the handler returns
TruckSend(q, c, rest, dead) ==
    LET dead1 == IF tsocks[c].gone THEN Append(dead, c) ELSE dead
    IN  IF rest = <<>>
        THEN /\ subscribers' = [subscribers EXCEPT ![tloc[q].truck_id] =
                                    DiscardAll(@, dead1)]
             /\ tloc' = [tloc EXCEPT ![q] = [@ EXCEPT !.pc = "done",
                            !.pending = <<>>, !.dead = dead1]]
        ELSE /\ subscribers' = subscribers
             /\ tloc' = [tloc EXCEPT ![q] = [@ EXCEPT !.pc = "send",
                            !.pending = rest, !.dead = dead1]]

\* "if truck_id in subscribers": dead = [], list(subscribers[truck_id]) and the
\* first send; with no key or an empty set the handler returns at once
truck_fanout_start(q) ==
    /\ tloc[q].pc = "fanout"
    /\ LET snap == Room(subscribers, tloc[q].truck_id)
       IN  IF snap = <<>>
           THEN /\ tloc' = [tloc EXCEPT ![q] = [@ EXCEPT !.pc = "done"]]
                /\ subscribers' = subscribers
           ELSE TruckSend(q, Head(snap), Tail(snap), <<>>)
    /\ UNCHANGED <<bookVars, appVars, tsocks, truck_current_location>>

\* the next iteration of the loop
truck_fanout_next(q) ==
    /\ tloc[q].pc = "send"
    /\ TruckSend(q, Head(tloc[q].pending), Tail(tloc[q].pending), tloc[q].dead)
    /\ UNCHANGED <<bookVars, appVars, tsocks, truck_current_location>>

\* ------------------------------------------------------------------------
\* app/routers/tracking.py: compute_delay, update_location
\* ------------------------------------------------------------------------

\* the update_location coroutines
Procs == {1, 2}

\* the LocationUpdate bodies the drivers post: one with lat and lng alone, one
\* with every field
FirstSample == [lat |-> 1, lng |-> 1, ts |-> None, speed |-> None]

SecondSample == [lat |-> 2, lng |-> 2, ts |-> Some(5), speed |-> Some(3)]

Samples == {FirstSample, SecondSample}

\* int(x / y) for y > 0: the quotient truncated towards zero
TruncDiv(x, y) == IF x >= 0 THEN x \div y ELSE -((-x) \div y)

\* the colour compute_delay returns with delay_min
ColorExclusive(delay_min) ==
    IF delay_min < 5 THEN "green" ELSE IF delay_min < 20 THEN "yellow" ELSE "red"

Color(delay_min) ==
    IF delay_min <= 5 THEN "green" ELSE IF delay_min <= 20 THEN "yellow" ELSE "red"

\* compute_delay: <<delay_minutes, delay_color>>; "if not planned_eta_ms" takes
\* None and 0 alike
compute_delay(planned_eta_ms, now_ms) ==
    IF planned_eta_ms = None \/ planned_eta_ms = Some(0)
    THEN <<None, "None">>
    ELSE LET delay_min == TruncDiv(now_ms - Val(planned_eta_ms), 60000)
         IN  <<Some(delay_min), Color(delay_min)>>

IdleIng == [pc |-> "idle", trip_id |-> "", loc |-> None, trip |-> None,
            now_ms |-> None, matched |-> None, snap |-> <<>>, pending |-> <<>>]

\* ts = loc.ts or now_ms
Ts(p) ==
    LET loc == Val(ing[p].loc)
    IN  IF loc.ts = None \/ loc.ts = Some(0) THEN Val(ing[p].now_ms) ELSE Val(loc.ts)

Delay(p) == compute_delay(Val(ing[p].trip).planned_eta_ms, Val(ing[p].now_ms))

\* update_doc["status"], set when the trip read at the start is scheduled
StatusKeptAsRead(read_status) == Some(read_status)

AutoStatus(read_status) ==
    IF read_status = "scheduled" THEN Some("in_transit") ELSE None

\* the payload handed to manager.broadcast
Payload(p) ==
    [trip_id |-> ing[p].trip_id, lat |-> Val(ing[p].loc).lat,
     lng |-> Val(ing[p].loc).lng, speed |-> Val(ing[p].loc).speed, ts |-> Ts(p),
     delay_minutes |-> Delay(p)[1], delay_color |-> Delay(p)[2]]

\* the test of what trips.find_one returned: "if not trip" raises the 404
FoundTripAlways(doc) == TRUE

FoundTrip(doc) == doc.exists

\* trips.find_one({trip_id}); 404 when there is none
FindTrip(p, t, loc) ==
    /\ ing[p].pc = "idle"
    /\ IF FoundTrip(wtrips[t])
       THEN ing' = [ing EXCEPT ![p] = [@ EXCEPT !.pc = "insert", !.trip_id = t,
                       !.loc = Some(loc),
                       !.trip = Some([status |-> wtrips[t].status,
                                      planned_eta_ms |-> wtrips[t].planned_eta_ms])]]
       ELSE ing' = [ing EXCEPT ![p] = [@ EXCEPT !.pc = "notfound", !.trip_id = t,
                       !.loc = Some(loc)]]
    /\ UNCHANGED <<mainVars, wtrips, now, locations, hubVars, shareVars, resp>>

\* now_ms, ts, locations.insert_one
InsertLocationDropped(p) ==
    /\ ing[p].pc = "insert"
    /\ ing' = [ing EXCEPT ![p] = [@ EXCEPT !.pc = "update", !.now_ms = Some(now)]]
    /\ UNCHANGED <<mainVars, wtrips, now, locations, hubVars, shareVars, resp>>

InsertLocation(p) ==
    /\ ing[p].pc = "insert"
    /\ ing' = [ing EXCEPT ![p] = [@ EXCEPT !.pc = "update", !.now_ms = Some(now)]]
    /\ locations' = locations \cup
          {[id |-> p, trip_id |-> ing[p].trip_id, lat |-> Val(ing[p].loc).lat,
            lng |-> Val(ing[p].loc).lng, ts |-> Ts(p)',
            speed |-> Val(ing[p].loc).speed]}
    /\ UNCHANGED <<mainVars, wtrips, now, hubVars, shareVars, resp>>

\* compute_delay, update_doc, trips.update_one({trip_id}, {"$set": update_doc})
UpdateTrip(p) ==
    /\ ing[p].pc = "update"
    /\ LET t == ing[p].trip_id
           st == AutoStatus(Val(ing[p].trip).status)
       IN  wtrips' = [wtrips EXCEPT ![t] =
              [@ EXCEPT !.last_location = Some([lat |-> Val(ing[p].loc).lat,
                                                lng |-> Val(ing[p].loc).lng,
                                                speed |-> Val(ing[p].loc).speed,
                                                ts |-> Ts(p)]),
                        !.last_update_ms = ing[p].now_ms,
                        !.delay_minutes = Delay(p)[1],
                        !.delay_color = Delay(p)[2],
                        !.status = IF st = None THEN @ ELSE Val(st)]]
    /\ ing' = [ing EXCEPT ![p] = [@ EXCEPT !.pc = "broadcast", !.matched = Some(1)]]
    /\ UNCHANGED <<mainVars, now, locations, hubVars, shareVars, resp>>

\* what the except branch of broadcast does with a socket whose send raised
OnSendFailureIgnored(rm, t, c) == rm

OnSendFailure(rm, t, c) == Disconnect(rm, t, c)

\* await ws.send_json(message) inside the try of WSManager.broadcast: the frame
\* reaches the client, or the send raises because the client is gone
SendJson(p, c) ==
    IF socks[c].gone
    THEN /\ rooms' = OnSendFailure(rooms, ing[p].trip_id, c)
         /\ recv' = recv
    ELSE /\ rooms' = rooms
         /\ recv' = [recv EXCEPT ![c] = Append(@, [src |-> p, msg |-> Payload(p)])]

\* where update_location stands after the send to socket c, with rest the
\* sockets still to be sent to: the try/except of broadcast swallows a raising
\* send, so the loop goes on, and after the last socket broadcast returns and
\* the handler answers {"ok": True}
AfterSendRaising(c, rest) ==
    IF socks[c].gone THEN "error" ELSE IF rest = <<>> THEN "done" ELSE "send"

AfterSend(c, rest) == IF rest = <<>> THEN "done" ELSE "send"

\* payload, manager.broadcast: list(self.rooms.get(trip_id, set())) and the
\* first send.  With no socket the broadcast and the handler return at once.
BroadcastStart(p) ==
    /\ ing[p].pc = "broadcast"
    /\ border' = Append(border, p)
    /\ LET snap == Room(rooms, ing[p].trip_id)
       IN  IF snap = <<>>
           THEN /\ ing' = [ing EXCEPT ![p] = [@ EXCEPT !.pc = "done"]]
                /\ UNCHANGED <<rooms, recv>>
           ELSE /\ SendJson(p, Head(snap))
                /\ ing' = [ing EXCEPT ![p] =
                       [@ EXCEPT !.pc = AfterSend(Head(snap), Tail(snap)),
                                 !.snap = snap, !.pending = Tail(snap)]]
    /\ UNCHANGED <<mainVars, wtrips, now, locations, socks, shareVars, resp>>

\* the next iteration of the for loop of broadcast; after the last one the
\* handler returns {"ok": True}
SendNext(p) ==
    /\ ing[p].pc = "send"
    /\ SendJson(p, Head(ing[p].pending))
    /\ ing' = [ing EXCEPT ![p] =
           [@ EXCEPT !.pc = AfterSend(Head(ing[p].pending), Tail(ing[p].pending)),
                     !.pending = Tail(@)]]
    /\ UNCHANGED <<mainVars, wtrips, now, locations, socks, border, shareVars,
                   resp>>

\* ------------------------------------------------------------------------
\* app/routers/trips.py: create_share_otp, resolve_otp
\* ------------------------------------------------------------------------

\* the create_share_otp coroutines
Issuers == {1, 2}

\* the codes secrets.randbelow draws, of the million there are
Otps == {"000001", "000002"}

IdleIss == [pc |-> "idle", trip_id |-> "", otp |-> "", expires_ms |-> None,
            now_ms |-> None]

\* trips.find_one({trip_id}); 404 when there is none
ShareFindTrip(i, t) ==
    /\ iss[i].pc = "idle"
    /\ iss' = [iss EXCEPT ![i] = [@ EXCEPT !.trip_id = t,
                   !.pc = IF wtrips[t].exists THEN "upsert" ELSE "notfound"]]
    /\ UNCHANGED <<mainVars, wtrips, now, locations, ing, hubVars, trip_shares, resp>>

\* the documents of trip_shares the filter {"trip_id": trip_id} matches
SharesOf(t) == {d \in trip_shares : d.trip_id = t}

\* otp, now_ms, expires_ms, and the query of trip_shares.update_one(filter,
\* {"$set": ...}, upsert=True).  With a match the store changes that document
\* in the same step and the handler answers.  With none the store goes on to
\* insert: the collection has no unique index on trip_id, so nothing keeps
\* another upsert of the trip_id from finding no match in between.
ShareUpsert(i, otp) ==
    /\ iss[i].pc = "upsert"
    /\ LET expires_ms == now + (15 * 60 * 1000)
       IN  IF SharesOf(iss[i].trip_id) # {}
           THEN /\ \E d \in SharesOf(iss[i].trip_id) :
                      trip_shares' = (trip_shares \ {d}) \cup
                          {[d EXCEPT !.otp = otp, !.expires_ms = expires_ms,
                                     !.created_at_ms = now]}
                /\ iss' = [iss EXCEPT ![i] = [@ EXCEPT !.pc = "done", !.otp = otp,
                               !.expires_ms = Some(expires_ms), !.now_ms = Some(now)]]
           ELSE /\ trip_shares' = trip_shares
                /\ iss' = [iss EXCEPT ![i] = [@ EXCEPT !.pc = "insert", !.otp = otp,
                               !.expires_ms = Some(expires_ms), !.now_ms = Some(now)]]
    /\ UNCHANGED <<mainVars, wtrips, now, locations, ing, hubVars, resp>>

\* the insert of an upsert whose query matched nothing (the document gets a
\* fresh _id), and the {"ok": True, "otp", "expires_ms"} answer
ShareInsert(i) ==
    /\ iss[i].pc = "insert"
    /\ trip_shares' = trip_shares \cup
           {[id |-> i, trip_id |-> iss[i].trip_id, otp |-> iss[i].otp,
             expires_ms |-> Val(iss[i].expires_ms),
             created_at_ms |-> Val(iss[i].now_ms)]}
    /\ iss' = [iss EXCEPT ![i] = [@ EXCEPT !.pc = "done"]]
    /\ UNCHANGED <<mainVars, wtrips, now, locations, ing, hubVars, resp>>

\* the expiry test of resolve_otp
ExpiredAtOrBefore(expires_ms, now_ms) == expires_ms <= now_ms

ExpiredAt(expires_ms, now_ms) == expires_ms < now_ms

\* resolve_otp: now_ms, trip_shares.find_one({otp}): one of the documents that
\* hold the code; 404 with none, 410 when expired
resolve_otp(otp) ==
    /\ LET held == {d \in trip_shares : d.otp = otp}
       IN  IF held = {}
           THEN resp' = Answer("resolve_otp", otp, 404, "", None)
           ELSE \E share \in held :
                  resp' = IF ExpiredAt(share.expires_ms, now)
                          THEN Answer("resolve_otp", otp, 410, "", None)
                          ELSE Answer("resolve_otp", otp, 200, share.trip_id,
                                      Some(share.expires_ms))
    /\ UNCHANGED <<mainVars, wtrips, now, locations, ing, hubVars, shareVars>>

\* ------------------------------------------------------------------------
\* the clock
\* ------------------------------------------------------------------------

\* quarters of an hour the clock may advance
MaxQuarters == 1

\* single milliseconds the clock may advance within a quarter
MaxMs == 1

TickQuarter ==
    /\ now \div 900000 <= MaxQuarters
    /\ now' = now + 900000
    /\ UNCHANGED <<mainVars, wtrips, locations, ing, hubVars, shareVars, resp>>

TickMs ==
    /\ now % 900000 < MaxMs
    /\ now' = now + 1
    /\ UNCHANGED <<mainVars, wtrips, locations, ing, hubVars, shareVars, resp>>

\* ------------------------------------------------------------------------
\* specifications
\* ------------------------------------------------------------------------

NoResp == Answer("none", "", 0, "", None)

\* the state after start-up, at time now0 with the trips wtrips0 stored
Start(now0, wtrips0) ==
    /\ trucks = [t \in TruckIds |-> "absent"]
    /\ bookings = {}
    /\ trips = {}
    /\ req = [r \in Reqs |-> IdleReq]
    /\ race = [t \in TruckIds |-> [open |-> FALSE, reqs |-> {}]]
    /\ wtrips = wtrips0
    /\ now = now0
    /\ locations = {}
    /\ ing = [p \in Procs |-> IdleIng]
    /\ rooms = [t \in {} |-> <<>>]
    /\ socks = [c \in Chans |-> NewSock]
    /\ recv = [c \in Chans |-> <<>>]
    /\ border = <<>>
    /\ trip_shares = {}
    /\ iss = [i \in Issuers |-> IdleIss]
    /\ resp = NoResp
    /\ subscribers = [t \in {} |-> <<>>]
    /\ tsocks = [c \in TChans |-> NewTruckSock]
    /\ tloc = [q \in TProcs |-> IdleTruckLoc]
    /\ truck_current_location = {}

Init == Start(900000, [t \in TripIds |-> AbsentTrip])

\* reservation, booking and trip creation
NextBooking ==
    \/ \E t \in TruckIds, st \in TruckStatus : create_truck(t, st)
    \/ \E t \in TruckIds, st \in TruckStatus : update_truck(t, st)
    \/ \E r \in Reqs : create_booking(r)
    \/ \E t \in TripIds : create_trip(t, "scheduled", None)

SpecBooking == Init /\ [][NextBooking]_vars

\* the websocket hub under concurrent ingestion: one trip with the default
\* TripCreate body, three sockets, two ingestions
NextHub ==
    \/ create_trip("t1", "scheduled", None)
    \/ \E p \in Procs : FindTrip(p, "t1", FirstSample)
    \/ \E p \in Procs : InsertLocation(p)
    \/ \E p \in Procs : UpdateTrip(p)
    \/ \E p \in Procs : BroadcastStart(p)
    \/ \E p \in Procs : SendNext(p)
    \/ \E c \in Chans : ws_accept(c, "t1")
    \/ \E c \in Chans : ws_register(c)
    \/ \E c \in Chans : client_close(c)
    \/ \E c \in Chans : ws_disconnect(c)

SpecHub == Init /\ [][NextHub]_vars

\* ingestion interleaved with the owner's writes of the trip and the clock,
\* with no socket connected: one trip, two ingestions
NextTrips ==
    \/ \E eta \in Opt(Etas) : create_trip("t1", "scheduled", eta)
    \/ \E st \in Opt(TripStatus), eta \in Opt(Etas) : patch_trip("t1", st, eta)
    \/ \E p \in Procs : FindTrip(p, "t1", FirstSample)
    \/ \E p \in Procs : InsertLocation(p)
    \/ \E p \in Procs : UpdateTrip(p)
    \/ \E p \in Procs : BroadcastStart(p)
    \/ TickQuarter

SpecTrips == Init /\ [][NextTrips]_vars

\* ingestion and the hub together: one trip, two sockets, two ingestions with
\* different bodies, the owner creating the trip and patching it to delivered
NextTracking ==
    \/ \E eta \in Opt(Etas) : create_trip("t1", "scheduled", eta)
    \/ \E st \in Opt({"delivered"}) : patch_trip("t1", st, None)
    \/ \E p \in Procs : FindTrip(p, "t1", IF p = 1 THEN FirstSample ELSE SecondSample)
    \/ \E p \in Procs : InsertLocation(p)
    \/ \E p \in Procs : UpdateTrip(p)
    \/ \E p \in Procs : BroadcastStart(p)
    \/ \E p \in Procs : SendNext(p)
    \/ \E c \in {1, 2} : ws_accept(c, "t1")
    \/ \E c \in {1, 2} : ws_register(c)
    \/ \E c \in {1, 2} : client_close(c)
    \/ \E c \in {1, 2} : ws_disconnect(c)

SpecTracking == Init /\ [][NextTracking]_vars

\* the update_location coroutines between their first and their last step
InFlight == {p \in Procs : ing[p].pc \in {"insert", "update", "broadcast", "send"}}

\* one operation on the trip at a time, with no socket connected: a handler
\* starts only when no ingestion is in flight
NextSeq ==
    \/ /\ InFlight = {}
       /\ \/ \E st \in TripStatus, eta \in Opt(Etas) : create_trip("t1", st, eta)
          \/ \E st \in Opt(TripStatus), eta \in Opt(Etas) : patch_trip("t1", st, eta)
          \/ \E p \in Procs, loc \in Samples : FindTrip(p, "t1", loc)
    \/ \E p \in Procs : InsertLocation(p)
    \/ \E p \in Procs : UpdateTrip(p)
    \/ \E p \in Procs : BroadcastStart(p)
    \/ TickQuarter

SpecSeq == Init /\ [][NextSeq]_vars

\* the planned_eta_ms of the trip whose delay is computed: none, 0, and 50
\* minutes after the epoch
PlannedEtas == {0, 3000000}

\* the times of the ingestions: 50 minutes after the epoch, shifted to both
\* sides of whole minutes, early and late, around 5-6 and 20-21 minutes late
ObservedAts ==
    {3000000 + d : d \in {-60001, -60000, -1, 0, 59999, 300000, 359999, 360000,
                          1200000, 1259999, 1260000}}

\* trip t1 as create_trip stored it at the epoch + 15 minutes
InitDelay ==
    \E eta \in Opt(PlannedEtas), now0 \in ObservedAts :
        Start(now0, [t \in TripIds |->
                       IF t = "t1"
                       THEN [AbsentTrip EXCEPT !.exists = TRUE,
                                               !.status = "scheduled",
                                               !.planned_eta_ms = eta,
                                               !.updated_at_ms = Some(900000)]
                       ELSE AbsentTrip])

\* compute_delay as the ingestions apply it
NextDelay ==
    \/ \E p \in Procs, loc \in Samples : FindTrip(p, "t1", loc)
    \/ \E p \in Procs : InsertLocation(p)
    \/ \E p \in Procs : UpdateTrip(p)
    \/ \E p \in Procs : BroadcastStart(p)

SpecDelay == InitDelay /\ [][NextDelay]_vars

\* sockets that come and go under ingestion: one trip, two sockets, two
\* ingestions.  A handler that can run does run: the event loop resumes the
\* trip_ws whose accept returned or whose receive_text raised, and the
\* broadcast whose send returned or raised.
NextCancel ==
    \/ create_trip("t1", "scheduled", None)
    \/ \E p \in Procs : FindTrip(p, "t1", FirstSample)
    \/ \E p \in Procs : InsertLocation(p)
    \/ \E p \in Procs : UpdateTrip(p)
    \/ \E p \in Procs : BroadcastStart(p)
    \/ \E p \in Procs : SendNext(p)
    \/ \E c \in {1, 2} : ws_accept(c, "t1")
    \/ \E c \in {1, 2} : ws_register(c)
    \/ \E c \in {1, 2} : client_close(c)
    \/ \E c \in {1, 2} : ws_disconnect(c)

SpecCancel ==
    /\ Init /\ [][NextCancel]_vars
    /\ \A c \in {1, 2} : WF_vars(ws_register(c)) /\ WF_vars(ws_disconnect(c))
    /\ \A p \in Procs : WF_vars(SendNext(p))

\* the truck-location hub of main.py: two sockets, two location updates
NextLive ==
    \/ \E c \in TChans, t \in TruckIds : ws_truck_accept(c, t)
    \/ \E c \in TChans : ws_truck_subscribe(c)
    \/ \E c \in TChans : ws_truck_send_last(c)
    \/ \E c \in TChans : truck_client_close(c)
    \/ \E c \in TChans : ws_truck_disconnect(c)
    \/ \E q \in TProcs, t \in TruckIds, valid \in BOOLEAN :
          truck_location_upsert(q, t, valid)
    \/ \E q \in TProcs : truck_fanout_start(q)
    \/ \E q \in TProcs : truck_fanout_next(q)

SpecLive == Init /\ [][NextLive]_vars

\* the owner's creates of two trips and patches of the first, with every patch
\* body, one ingestion for the first trip and the clock
NextPatch ==
    \/ \E t \in TripIds, eta \in Opt(Etas) : create_trip(t, "scheduled", eta)
    \/ \E st \in Opt(TripStatus), eta \in Opt(Etas) : patch_trip("t1", st, eta)
    \/ FindTrip(1, "t1", SecondSample)
    \/ InsertLocation(1)
    \/ UpdateTrip(1)
    \/ BroadcastStart(1)
    \/ TickQuarter

SpecPatch == Init /\ [][NextPatch]_vars

\* share codes: issue, redeem and the clock; the owner creates the trips before
\* the clock moves
NextShare ==
    \/ \E t \in TripIds : now = 900000 /\ create_trip(t, "scheduled", None)
    \/ \E i \in Issuers, t \in TripIds : ShareFindTrip(i, t)
    \/ \E i \in Issuers, otp \in Otps : ShareUpsert(i, otp)
    \/ \E i \in Issuers : ShareInsert(i)
    \/ \E otp \in Otps : resolve_otp(otp)
    \/ TickQuarter
    \/ TickMs

SpecShare == Init /\ [][NextShare]_vars

\* ------------------------------------------------------------------------
\* properties
\* ------------------------------------------------------------------------

\* C1: of the N requests that run their reservation step on a truck after the
\* owner made it available, with no owner patch of the truck in between,
\* exactly one gets the truck and the N-1 others fail; the truck is booked as
\* soon as one of them has run, and available only while none has.
ExactlyOneReservation ==
    \A t \in TruckIds : race[t].open =>
        LET won == {r \in race[t].reqs : req[r].truck # None}
            lost == {r \in race[t].reqs : req[r].result = "400 Truck not available"}
        IN  IF race[t].reqs = {}
            THEN trucks[t] = "available"
            ELSE /\ Cardinality(won) = 1
                 /\ lost = race[t].reqs \ won
                 /\ trucks[t] = "booked"

\* three requests have raced for one available truck
ThreeRequestsRaced ==
    \E t \in TruckIds :
        /\ race[t].open
        /\ race[t].reqs = Reqs
        /\ Cardinality({r \in Reqs : req[r].pc = "failed"}) = 2

\* C2: when a broadcast has returned, every socket of the room as it was when
\* the broadcast started has been sent the message unless its send raised (a
\* raising send does not stop the sends to the others), and every socket whose
\* send raised is out of the room.
Got(c, p) == \E k \in 1..Len(recv[c]) : recv[c][k].src = p

BroadcastIsolation ==
    \A p \in Procs : ing[p].pc = "done" =>
        \A c \in Range(ing[p].snap) :
            /\ ~socks[c].gone => Got(c, p)
            /\ ~Got(c, p) => c \notin Range(Room(rooms, ing[p].trip_id))

\* a broadcast to three sockets has returned: two got the message, the send to
\* the third raised
OneOfThreeFailed ==
    \E p \in Procs :
        /\ ing[p].pc = "done"
        /\ Range(ing[p].snap) = Chans
        /\ Cardinality({c \in Chans : Got(c, p)}) = 2

\* C3: the trips.update_one of an ingestion leaves a stored status other than
\* scheduled as it is.
IngestOnlyAdvancesScheduled ==
    [][\A p \in Procs :
          (UpdateTrip(p) /\ wtrips[ing[p].trip_id].status # "scheduled")
              => wtrips'[ing[p].trip_id].status = wtrips[ing[p].trip_id].status]_vars

\* C4: with one operation on the trip at a time, once an ingestion that found
\* the trip scheduled or in_transit has written the trip, the stored status is
\* in_transit.
AutoTransitionIdempotent ==
    \A p \in Procs :
        (/\ ing[p].pc \in {"broadcast", "send"}
         /\ Val(ing[p].trip).status \in {"scheduled", "in_transit"})
            => wtrips[ing[p].trip_id].status = "in_transit"

\* a first ingestion found the trip scheduled and has returned, a second one
\* found it in_transit and has written the trip
SecondSampleWritten ==
    \E p, q \in Procs :
        /\ ing[p].pc = "done"
        /\ Val(ing[p].trip).status = "scheduled"
        /\ ing[q].pc = "broadcast"
        /\ Val(ing[q].trip).status = "in_transit"

\* C5: a socket that has been sent the messages of two broadcasts of a trip
\* was sent them in the order in which broadcast was called.
BroadcastOrderPerObserver ==
    \A i, j \in 1..Len(border) :
        (i < j /\ ing[border[i]].trip_id = ing[border[j]].trip_id) =>
            \A c \in Chans : \A k, l \in 1..Len(recv[c]) :
                (recv[c][k].src = border[i] /\ recv[c][l].src = border[j]) => k < l

\* C6: at the moment a socket is sent an event, the event's lat, lng, speed,
\* ts, delay_minutes and delay_color are those stored on the trip.
EventMatchesStoredTrip ==
    [][\A c \in Chans :
          recv'[c] # recv[c] =>
              LET m == recv'[c][Len(recv'[c])].msg
                  d == wtrips'[m.trip_id]
              IN  /\ d.last_location = Some([lat |-> m.lat, lng |-> m.lng,
                                             speed |-> m.speed, ts |-> m.ts])
                  /\ d.delay_minutes = m.delay_minutes
                  /\ d.delay_color = m.delay_color]_vars

\* C7: every event a socket has been sent comes from an ingestion whose
\* location row is stored, with the event's trip_id, lat, lng, ts and speed,
\* and whose trips.update_one has been applied.
PersistedBeforeBroadcast ==
    \A c \in Chans : \A k \in 1..Len(recv[c]) :
        LET p == recv[c][k].src
            m == recv[c][k].msg
        IN  /\ \E row \in locations :
                  /\ row.id = p
                  /\ row.trip_id = m.trip_id
                  /\ row.lat = m.lat /\ row.lng = m.lng
                  /\ row.ts = m.ts /\ row.speed = m.speed
            /\ ing[p].matched = Some(1)
            /\ wtrips[m.trip_id].last_location # None
            /\ wtrips[m.trip_id].last_update_ms # None

\* the socket has been sent the events of two ingestions
TwoEventsSent == Len(recv[1]) = 2

\* C8: a Booking with a trip_id exists exactly when a Trip with that trip_id
\* exists, in either trips collection.
AllTripIds == TripIds \cup {new_id("tr", r) : r \in Reqs}

TripBookingOneToOne ==
    \A id \in AllTripIds :
        (\E b \in bookings : b.trip_id = id)
            <=> \/ \E d \in trips : d.trip_id = id
                \/ id \in TripIds /\ wtrips[id].exists

\* C8, amended: every Trip inserted by create_booking has exactly one Booking
\* with its trip_id, and that Booking has its booking_id and truck_id; once a
\* create_booking has returned, its Booking and its Trip are both stored.
BookedTripHasBooking ==
    /\ \A d \in trips :
          /\ Cardinality({b \in bookings : b.trip_id = d.trip_id}) = 1
          /\ \E b \in bookings : /\ b.trip_id = d.trip_id
                                  /\ b.booking_id = d.booking_id
                                  /\ b.truck_id = d.truck_id
    /\ \A r \in Reqs : req[r].pc = "done" =>
          /\ \E b \in bookings : b.trip_id = Val(req[r].trip_id)
          /\ \E d \in trips : d.trip_id = Val(req[r].trip_id)

\* one create_booking has returned and another is between its two inserts
PairAndOrphan ==
    \E r, q \in Reqs : req[r].pc = "done" /\ req[q].pc = "insert_trip"

\* C9: a reservation step on a truck that is absent or not available ends the
\* request with "Truck not available" and writes nothing; the request takes no
\* further step, and no Booking or Trip carries its ids.
FailedReservationHasNoEffect ==
    [][/\ \A r \in Reqs, t \in TruckIds :
            (Reserve(r, t) /\ trucks[t] # "available") =>
                /\ req'[r].pc = "failed"
                /\ req'[r].result = "400 Truck not available"
                /\ trucks' = trucks
                /\ bookings' = bookings
                /\ trips' = trips
       /\ \A r \in Reqs : req[r].pc = "failed" =>
            /\ req'[r] = req[r]
            /\ \A b \in bookings' : b.booking_id # new_id("bk", r)
            /\ \A d \in trips' : d.trip_id # new_id("tr", r)]_vars

\* requests have failed on an out_of_service truck and on an absent one
FailedOnUnavailable ==
    \E r, q \in Reqs :
        /\ req[r].pc = "failed" /\ trucks[req[r].truck_id] = "out_of_service"
        /\ req[q].pc = "failed" /\ trucks[req[q].truck_id] = "absent"

\* C10: resolve_otp answers 404 exactly when no share document holds the code;
\* otherwise, for a document that holds it, with expiry e: 200 with the
\* document's trip_id when now <= e, and 410 when now > e.
ShareExpiryStrict ==
    [][\A otp \in Otps : resolve_otp(otp) =>
          LET held == {d \in trip_shares : d.otp = otp}
          IN  /\ held = {} <=> resp'.code = 404
              /\ held # {} =>
                    \E d \in held :
                        /\ now <= d.expires_ms =>
                              /\ resp'.code = 200
                              /\ resp'.trip_id = d.trip_id
                              /\ resp'.expires_ms = Some(d.expires_ms)
                        /\ now > d.expires_ms => resp'.code = 410]_vars

\* a code has been redeemed at the very millisecond of its expiry
RedeemedAtExpiry ==
    /\ resp.op = "resolve_otp"
    /\ resp.code = 200
    /\ resp.expires_ms = Some(now)

\* C11: the share store holds at most one document per trip_id, each document
\* carries the code and the expiry (issue time + 15 minutes) of an issuance
\* that was applied for its trip, and an issuance for a trip_id with no trip
\* is answered 404 and stores nothing.
OneSharePerTrip ==
    /\ \A d, e \in trip_shares : d.trip_id = e.trip_id => d = e
    /\ \A d \in trip_shares : \E i \in Issuers :
          /\ iss[i].pc = "done" /\ iss[i].trip_id = d.trip_id
          /\ d.otp = iss[i].otp
          /\ Some(d.expires_ms) = iss[i].expires_ms
          /\ d.expires_ms = d.created_at_ms + 900000
    /\ \A i \in Issuers : iss[i].pc = "notfound" =>
          \A d \in trip_shares : d.id # i

\* C12: no key of WSManager.rooms maps to an empty set, whatever the
\* interleaving of connects, disconnects and broadcasts: the removal of the
\* last socket of a trip_id, by disconnect or by a failed send, deletes the key.
NoEmptyRoom == \A t \in DOMAIN rooms : rooms[t] # <<>>

\* the room has been emptied: one socket was removed by its handler's
\* disconnect, another by a failed send while its handler had not run yet
RoomEmptiedBothWays ==
    /\ "t1" \notin DOMAIN rooms
    /\ \E c, d \in Chans :
          /\ socks[c].pc = "closed"
          /\ socks[d].pc = "recv" /\ socks[d].gone

\* C13: an ingestion for an existing trip never ends in an error because of
\* its sends: after a send that raised it goes on with the next socket or
\* answers {"ok": True}, and when it has answered, its locations row is stored
\* and the trip carries a last_location and a last_update_ms.
IngestAcksDespiteSendFailures ==
    \A p \in Procs :
        /\ ing[p].pc # "error"
        /\ ing[p].pc = "done" =>
              /\ \E row \in locations : row.id = p /\ row.trip_id = ing[p].trip_id
              /\ wtrips[ing[p].trip_id].last_location # None
              /\ wtrips[ing[p].trip_id].last_update_ms # None

\* an ingestion has answered after the sends to all three sockets of its trip
\* raised
AckedWithAllSendsFailed ==
    \E p \in Procs :
        /\ ing[p].pc = "done"
        /\ Range(ing[p].snap) = Chans
        /\ \A c \in Chans : ~Got(c, p)

\* C14: patch_trip on a trip_id with no trip answers 404 and creates no trip,
\* for every patch body, the body with no field set included.
PatchOfAbsentTripIsNotFound ==
    [][\A t \in TripIds, st \in Opt(TripStatus), eta \in Opt(Etas) :
          (~wtrips[t].exists /\ resp'.op = "patch_trip" /\ patch_trip(t, st, eta)) =>
              /\ resp'.code = 404
              /\ wtrips' = wtrips]_vars

\* C20: patch_trip on an existing trip sets status and planned_eta_ms to the
\* values of the patch that are not None, stamps updated_at_ms when it sets
\* one, and leaves every other field of the trip and every other trip as they
\* are.
PatchFrame ==
    [][\A t \in TripIds, st \in Opt(TripStatus), eta \in Opt(Etas) :
          (/\ wtrips[t].exists
           /\ resp' = Answer("patch_trip", t, 200, "", None)
           /\ patch_trip(t, st, eta)) =>
              /\ wtrips'[t].status = IF st = None THEN wtrips[t].status ELSE Val(st)
              /\ wtrips'[t].planned_eta_ms =
                     IF eta = None THEN wtrips[t].planned_eta_ms ELSE eta
              /\ wtrips'[t].updated_at_ms =
                     IF st = None /\ eta = None THEN wtrips[t].updated_at_ms
                                                ELSE Some(now)
              /\ wtrips'[t].exists
              /\ wtrips'[t].last_location = wtrips[t].last_location
              /\ wtrips'[t].last_update_ms = wtrips[t].last_update_ms
              /\ wtrips'[t].delay_minutes = wtrips[t].delay_minutes
              /\ wtrips'[t].delay_color = wtrips[t].delay_color
              /\ \A u \in TripIds \ {t} : wtrips'[u] = wtrips[u]
              /\ locations' = locations]_vars

\* a later patch of the status alone has been applied to a trip that has a
\* planned_eta_ms and the fields an ingestion wrote, next to a second trip
StatusPatchedOnTrackedTrip ==
    \E t \in TripIds :
        /\ resp = Answer("patch_trip", t, 200, "", None)
        /\ wtrips[t].status = "cancelled"
        /\ wtrips[t].planned_eta_ms # None
        /\ wtrips[t].last_location # None
        /\ wtrips[t].delay_minutes # None
        /\ wtrips[t].updated_at_ms = Some(now)
        /\ now > 900000
        /\ \E u \in TripIds \ {t} : wtrips[u].exists

\* C15: an ingestion for a trip_id with no trip is answered 404 by its first
\* step, which inserts no locations row, changes no trip and sends nothing to
\* any socket; the request takes no further step and no row carries its id.
IngestOfAbsentTripHasNoEffect ==
    [][\A p \in Procs :
          /\ (/\ ing[p].pc = "idle" /\ ing'[p].pc # "idle"
              /\ ~wtrips[ing'[p].trip_id].exists) =>
                /\ ing'[p].pc = "notfound"
                /\ locations' = locations
                /\ wtrips' = wtrips
                /\ recv' = recv
                /\ rooms' = rooms
          /\ ing[p].pc = "notfound" =>
                /\ ing'[p] = ing[p]
                /\ \A row \in locations' : row.id # p]_vars

\* an ingestion was answered 404 while a socket was subscribed to its trip_id,
\* and a later ingestion for the trip_id, created since, has reached the socket
NotFoundWithSubscriber ==
    \E p, q \in Procs : \E c \in Chans :
        /\ ing[p].pc = "notfound"
        /\ ing[q].pc = "done"
        /\ Got(c, q) /\ ~Got(c, p)

\* C16: for a trip with a planned_eta_ms, the delay_minutes an ingestion
\* stores is floor((now_ms - planned_eta_ms) / 60000), negative when the
\* ingestion is early.
DelayIsFloor ==
    [][\A p \in Procs :
          (/\ ing[p].pc = "update" /\ ing'[p].pc = "broadcast"
           /\ Val(ing[p].trip).planned_eta_ms # None) =>
              wtrips'[ing[p].trip_id].delay_minutes =
                  Some((Val(ing[p].now_ms) - Val(Val(ing[p].trip).planned_eta_ms))
                           \div 60000)]_vars

NoEmptySubscriberSet == \A t \in DOMAIN subscribers : subscribers[t] # <<>>

\* C19: a socket whose client went away is eventually out of its room with
\* its handler ended, and stays out, at whatever point of the broadcasts in
\* flight the client went; a broadcast in flight completes, and has then sent
\* to every socket of its snapshot whose client is there; the disconnect of a
\* socket a failed send already removed changes nothing in rooms.
InRoom(c) == c \in Range(Room(rooms, socks[c].trip_id))

DisconnectedChannelLeaves ==
    /\ \A c \in {1, 2} : socks[c].gone ~> (socks[c].pc = "closed" /\ ~InRoom(c))
    /\ [](\A c \in {1, 2} : socks[c].pc = "closed" => ~InRoom(c))
    /\ \A p \in Procs : (ing[p].pc = "send") ~> (ing[p].pc = "done")
    /\ [](\A p \in Procs : ing[p].pc = "done" =>
            \A c \in Range(ing[p].snap) : ~socks[c].gone => Got(c, p))
    /\ [][\A c \in {1, 2} :
            (socks[c].pc = "recv" /\ socks'[c].pc = "closed" /\ ~InRoom(c))
                => rooms' = rooms]_vars

\* a client went away during a broadcast to two sockets: the send to its
\* socket raised, the other socket was sent the event, and the handler of the
\* socket has since run its disconnect
ClosedDuringBroadcast ==
    \E p \in Procs : \E c, d \in {1, 2} :
        /\ ing[p].pc = "done"
        /\ Range(ing[p].snap) = {c, d}
        /\ ~Got(c, p) /\ Got(d, p)
        /\ socks[c].pc = "closed"

\* C21: a code an issuance for trip T returned, while it has not expired and
\* every share document of T still holds it with that issuance's expiry, is
\* redeemed with 200 and the trip_id T, whatever the share documents of the
\* other trips hold.
LiveCodeRedeemsToItsTrip ==
    [][\A i \in Issuers :
          (/\ iss[i].pc = "done"
           /\ SharesOf(iss[i].trip_id) # {}
           /\ \A d \in SharesOf(iss[i].trip_id) :
                 d.otp = iss[i].otp /\ Some(d.expires_ms) = iss[i].expires_ms
           /\ now <= Val(iss[i].expires_ms)
           /\ resp'.op = "resolve_otp" /\ resp'.arg = iss[i].otp
           /\ resolve_otp(iss[i].otp)) =>
              /\ resp'.code = 200
              /\ resp'.trip_id = iss[i].trip_id]_vars

\* C22: the stored last_update_ms of a trip never decreases: every write of
\* it carries a time greater than or equal to the one it replaces.
LastUpdateMonotonic ==
    [][\A t \in TripIds :
          wtrips[t].last_update_ms # None =>
              /\ wtrips'[t].last_update_ms # None
              /\ Val(wtrips'[t].last_update_ms) >= Val(wtrips[t].last_update_ms)]_vars

====
